---- MODULE Spec2Model ----
(***************************************************************************)
(* Model of the JJ Enterprises immersive box experience:                   *)
(*   - BoxExperience (state flags, GSAP timelines, camera hand-off,        *)
(*     click / keyboard handlers),                                         *)
(*   - ResponsiveHandler (tap, Escape, home button, adaptive quality),     *)
(*   - CrossBrowserTester (test panel buttons),                            *)
(*   - PerformanceOptimizer (frustum / distance culling, frame-rate        *)
(*     monitoring, autoOptimize),                                          *)
(*   - the look and orbit input handlers, the animation frames and the     *)
(*     page load (preloads and fallback timer).                            *)
(* Time is counted in units of 0.25 s, so the 1.5 s opening timeline lasts *)
(* 6 units and the 2 s enter / exit timelines last 8 units.                *)
(***************************************************************************)
EXTENDS Integers, Sequences, FiniteSets, TLC

\* ---------------------------------------------------------------- bounds
MaxTransitions == 3   \* timelines created in one run
MaxDt          == 2   \* longest gap between two GSAP ticks, in time units
MaxTaps        == 1   \* experienceTap events dispatched in one run
MaxEvals       == 5   \* performance evaluations in one run
MaxFrames      == 3   \* animation frames in one run
MaxSamples     == 4   \* frames sampled by PerformanceOptimizer in one run
MaxLooks       == 2   \* continuous inputs (pointer, touch, orientation, look keys) in one run

\* ------------------------------------------------------ program constants
OpenDuration  == 6    \* duration: 1.5
EnterDuration == 8    \* duration: 2
ExitDuration  == 8    \* duration: 2

Ops     == {"open", "enterBox", "exitBox"}
Cameras == {"external", "internal"}
Events  == {"boxOpened", "enterBox", "exitBox", "experienceTap"}
UAs     == {"desktop", "phone", "tablet"}
Widths  == {"small", "mid", "large"}

VARIABLES
  \* BoxExperience
  boxModel,            \* TRUE once the GLTF callback has bound this.boxModel
  isBoxOpen,
  isInsideBox,
  interactionEnabled,
  controlsEnabled,     \* this.controls.enabled
  activeCamera,
  tweens,              \* GSAP timelines in flight, in creation order
  maxSwaps,            \* most camera assignments made by one timeline so far
  \* observation of the run
  started,             \* timelines created, per operation
  completed,           \* onComplete callbacks run, per operation
  dispatched,          \* CustomEvents dispatched on document, per name
  threw,               \* a handler raised a TypeError
  \* environment
  testMode,            \* window.location.hash === '#test'
  ua,                  \* class of navigator.userAgent
  width,               \* class of window.innerWidth
  \* ResponsiveHandler
  isMobile,
  isTablet,
  touchControls,       \* touch listeners and home button were installed
  keyboardControls,    \* desktop keydown listener was installed
  qualityLevel,
  avgNum,              \* fpsMonitor.avgFps * 10^evals
  evals,               \* evaluations done so far
  lowFpsCount,
  hist,                \* one record per evaluation (first entry: construction)
  \* PerformanceOptimizer culling
  objVisible,
  objGeometry,
  objDistance,         \* camera distance used by the last culling pass (0: none yet)
  objInFrustum,        \* frustum test result of the last culling pass
  objPrevGeometry,     \* geometry before the last culling pass
  \* observation of the input handlers
  lastCall,            \* the last activate input and the operation it called
  \* renderer settings
  pixelRatioCap,       \* cap passed to renderer.setPixelRatio, in tenths
  shadowType,          \* renderer.shadowMap.type
  \* cameras
  externalFov,
  internalFov,
  externalAspect,      \* window size class the aspect was computed from
  internalAspect,
  renderCamera,        \* camera held by the RenderPass of the composer
  \* requestAnimationFrame
  scheduled,           \* callbacks registered for the next frame, in order
  pending,             \* callbacks of the current frame still to run
  frameLog,            \* what the callbacks of the current frame did so far
  frames,              \* frames begun
  \* look and orbit input
  lookEuler,           \* [x, y, k]: pitch x / 20^k and yaw y / 20^k, in 0.01 rad
  orbit,               \* azimuth of the external camera around the box, in 0.01 rad
  looks,               \* continuous input events delivered so far
  lastSrc,             \* device of the last continuous input event
  needsPermission,     \* DeviceOrientationEvent.requestPermission is a function
  orientationListening, \* handleDeviceOrientation is registered on window
  \* PerformanceOptimizer monitoring
  poFps,               \* performanceMonitor.fps * 10^Len(fpsHistory)
  fpsHistory,          \* smoothed values pushed so far, entry i times 10^i
  instants,            \* currentFps of each sampled frame
  currentOptimizationLevel,
  appliedLevel,        \* level whose render settings applyOptimizationLevel applied
  lastAuto,            \* the last run of autoOptimize from a frame
  \* page load
  assetsLoaded,
  timeoutFired,        \* the 10 s fallback timer has run
  initialized          \* calls of initializeExperience

boxVars  == <<boxModel, isBoxOpen, isInsideBox, interactionEnabled, controlsEnabled,
              activeCamera, tweens, maxSwaps, started, completed, dispatched, threw>>
envVars  == <<testMode, ua, width>>
devVars  == <<isMobile, isTablet, touchControls, keyboardControls>>
qualVars == <<qualityLevel, avgNum, evals, lowFpsCount, hist>>
cullVars == <<objVisible, objGeometry, objDistance, objInFrustum, objPrevGeometry>>
obsVars    == <<lastCall>>
renderVars == <<pixelRatioCap, shadowType>>
camVars    == <<externalFov, internalFov, externalAspect, internalAspect, renderCamera>>
frameVars  == <<scheduled, pending, frameLog, frames>>
lookVars   == <<lookEuler, orbit, looks, lastSrc, needsPermission, orientationListening>>
poVars     == <<poFps, fpsHistory, instants, currentOptimizationLevel, appliedLevel, lastAuto>>
loadVars   == <<assetsLoaded, timeoutFired, initialized>>
auxVars  == <<obsVars, renderVars, camVars, frameVars, lookVars, poVars, loadVars>>
vars     == <<boxVars, envVars, devVars, qualVars, cullVars, auxVars>>

\* ------------------------------------------------------------- helpers
Min(a, b) == IF a < b THEN a ELSE b
Max(a, b) == IF a > b THEN a ELSE b

RECURSIVE Pow10(_)
Pow10(n) == IF n = 0 THEN 1 ELSE 10 * Pow10(n - 1)

\* Timelines created so far.
TotalStarted == started["open"] + started["enterBox"] + started["exitBox"]

\* ======================================================== BoxExperience
\* State shown by updateUI and used by every handler's dispatch.
ExperienceState ==
  IF ~isBoxOpen THEN "Closed" ELSE IF ~isInsideBox THEN "Open" ELSE "Inside"

Duration(k) ==
  CASE k = "open"     -> OpenDuration
    [] k = "enterBox" -> EnterDuration
    [] k = "exitBox"  -> ExitDuration

\* gsap.timeline() with one tween: nothing runs until the next GSAP tick.
NewTween(k) == [kind |-> k, elapsed |-> 0, swaps |-> 0]

\* boxAnimations.open / enterBox / exitBox: the guard, then a new timeline.
open(tw)     == IF isBoxOpen    THEN tw ELSE Append(tw, NewTween("open"))
enterBox(tw) == IF isInsideBox  THEN tw ELSE Append(tw, NewTween("enterBox"))
exitBox(tw)  == IF ~isInsideBox THEN tw ELSE Append(tw, NewTween("exitBox"))

RunOp(op, tw) ==
  CASE op = "open"     -> open(tw)
    [] op = "enterBox" -> enterBox(tw)
    [] op = "exitBox"  -> exitBox(tw)

\* A handler calls one operation.
Invoke(op) ==
  LET tw == RunOp(op, tweens) IN
  /\ tw # tweens => TotalStarted < MaxTransitions
  /\ tweens' = tw
  /\ started' = IF tw # tweens THEN [started EXCEPT ![op] = @ + 1] ELSE started
  /\ UNCHANGED <<boxModel, isBoxOpen, isInsideBox, interactionEnabled, controlsEnabled,
                 activeCamera, maxSwaps, completed, threw>>

\* A handler returns without calling an operation.
Ignore ==
  UNCHANGED <<boxModel, isBoxOpen, isInsideBox, interactionEnabled, controlsEnabled,
                 activeCamera, tweens, maxSwaps, started, completed, threw>>

\* A handler dereferences the unbound model / boxAnimations.
Throw ==
  /\ threw' = TRUE
  /\ UNCHANGED <<boxModel, isBoxOpen, isInsideBox, interactionEnabled, controlsEnabled,
                 activeCamera, tweens, maxSwaps, started, completed>>

\* Variant of the ray-cast dispatch that leaves the box on any input while inside.
RayTargetAnywhere(hit) ==
  IF isInsideBox THEN "exitBox"
  ELSE IF hit THEN (IF ~isBoxOpen THEN "open" ELSE "enterBox")
  ELSE "none"

\* Ray-cast dispatch shared by the click handler and handleTap.
RayTarget(hit) ==
  IF hit THEN (IF ~isBoxOpen THEN "open" ELSE IF ~isInsideBox THEN "enterBox" ELSE "none")
  ELSE (IF isInsideBox THEN "exitBox" ELSE "none")

\* Dispatch of the Space key and of the touch action button.
KeyTarget ==
  IF ~isBoxOpen THEN "open" ELSE IF ~isInsideBox THEN "enterBox" ELSE "exitBox"

\* gltfLoader.load callback: binds boxModel and builds boxAnimations.
ModelLoaded ==
  /\ ~boxModel
  /\ boxModel' = TRUE
  /\ UNCHANGED <<isBoxOpen, isInsideBox, interactionEnabled, controlsEnabled, activeCamera,
                 tweens, maxSwaps, started, completed, dispatched, threw>>
  /\ UNCHANGED <<envVars, devVars, qualVars, cullVars, auxVars>>

\* canvas 'click' listener.
ClickAt(hit) ==
  /\ IF ~interactionEnabled THEN Ignore
     ELSE IF ~boxModel THEN Throw
     ELSE IF RayTarget(hit) = "none" THEN Ignore
     ELSE Invoke(RayTarget(hit))
  /\ UNCHANGED <<dispatched, envVars, devVars, qualVars, cullVars>>

Click == \E hit \in BOOLEAN : ClickAt(hit) /\ UNCHANGED auxVars

\* window 'keydown' listener of BoxExperience, case 'Space'.
KeySpaceDown ==
  /\ IF ~boxModel THEN Throw ELSE Invoke(KeyTarget)
  /\ UNCHANGED <<dispatched, envVars, devVars, qualVars, cullVars>>

KeySpace == KeySpaceDown /\ UNCHANGED auxVars

\* ResponsiveHandler.handleTap (reached from onTouchEnd on a tap).
handleTapAt(hit) ==
  /\ touchControls
  /\ dispatched["experienceTap"] < MaxTaps
  /\ IF ~boxModel THEN Ignore
     ELSE IF RayTarget(hit) = "none" THEN Ignore
     ELSE Invoke(RayTarget(hit))
  /\ dispatched' = [dispatched EXCEPT !["experienceTap"] = @ + 1]
  /\ UNCHANGED <<envVars, devVars, qualVars, cullVars>>

handleTap == \E hit \in BOOLEAN : handleTapAt(hit) /\ UNCHANGED auxVars

\* The operation a handler run has called: the kind of the timeline it created.
Called == IF Len(tweens') > Len(tweens) THEN tweens'[Len(tweens')].kind ELSE "none"

\* Record of one activate input: its source, whether the ray from the pointer
\* position hits the box, the situation it arrived in and the operation called.
Observe(src, hit) ==
  /\ lastCall' = [src |-> src, hit |-> hit, state |-> ExperienceState,
                  enabled |-> interactionEnabled, bound |-> boxModel, op |-> Called]
  /\ UNCHANGED <<renderVars, camVars, frameVars, lookVars, poVars, loadVars>>

\* The three activate sources, observed.
ObservedClick == \E hit \in BOOLEAN : ClickAt(hit) /\ Observe("click", hit)
ObservedTap   == \E hit \in BOOLEAN : handleTapAt(hit) /\ Observe("tap", hit)
ObservedKey   == \E hit \in BOOLEAN : KeySpaceDown /\ Observe("key", hit)

\* ResponsiveHandler.setupKeyboardControls, case 'Escape'.
KeyEscape ==
  /\ keyboardControls
  /\ IF isInsideBox THEN Invoke("exitBox") ELSE Ignore
  /\ UNCHANGED <<dispatched, envVars, devVars, qualVars, cullVars, auxVars>>

\* Home button of the mobile / tablet navigation.
HomeButton ==
  /\ touchControls
  /\ IF isInsideBox THEN Invoke("exitBox") ELSE Ignore
  /\ UNCHANGED <<dispatched, envVars, devVars, qualVars, cullVars, auxVars>>

\* CrossBrowserTester test panel: Test Open Box / Enter Box / Exit Box.
TestButton ==
  /\ testMode
  /\ \E op \in Ops : IF boxModel THEN Invoke(op) ELSE Ignore
  /\ UNCHANGED <<dispatched, envVars, devVars, qualVars, cullVars, auxVars>>

\* Touch action button added by CrossBrowserTester.setupTouchFallbacks.
TouchActionButton ==
  /\ testMode
  /\ ua # "desktop"
  /\ IF ~boxModel THEN Throw ELSE Invoke(KeyTarget)
  /\ UNCHANGED <<dispatched, envVars, devVars, qualVars, cullVars, auxVars>>

\* setupInsideBoxControls (run by enterBox's onComplete): a fresh lookEuler.
setupInsideBoxControls == [x |-> 0, y |-> 0, k |-> 0]

\* ------------------------------------------------------ GSAP callbacks
\* The callbacks work on a record of the fields they read and write:
\*   open, inside, inter, ctrl, cam, done, swaps, out (timelines still running).

\* Variant of PastHalf that already fires at the midpoint itself.
PastHalfInclusive(e, d) == 2 * e >= d

\* timeline.progress() > 0.5 for a timeline of duration d after e time units.
PastHalf(e, d) == 2 * e > d

onStart(k, s) ==
  CASE k = "open"     -> [s EXCEPT !.inter = FALSE, !.ctrl = FALSE]
    [] k = "enterBox" -> [s EXCEPT !.inter = FALSE, !.ctrl = FALSE]
    [] k = "exitBox"  -> [s EXCEPT !.inter = FALSE]

\* Variant whose exitBox never hands the view back to the external camera.
onUpdateNoHandBack(k, e, s) ==
  CASE k = "open"     -> s
    [] k = "enterBox" ->
         IF PastHalf(e, EnterDuration) /\ s.cam # "internal"
         THEN [s EXCEPT !.cam = "internal"] ELSE s
    [] k = "exitBox"  ->
         IF PastHalf(e, ExitDuration) /\ s.cam # "external"
         THEN [s EXCEPT !.ctrl = TRUE] ELSE s

onUpdate(k, e, s) ==
  CASE k = "open"     -> s
    [] k = "enterBox" ->
         IF PastHalf(e, EnterDuration) /\ s.cam # "internal"
         THEN [s EXCEPT !.cam = "internal"] ELSE s
    [] k = "exitBox"  ->
         IF PastHalf(e, ExitDuration) /\ s.cam # "external"
         THEN [s EXCEPT !.cam = "external", !.ctrl = TRUE] ELSE s

onComplete(k, s) ==
  CASE k = "open"     -> [s EXCEPT !.open = TRUE, !.inter = TRUE,
                                    !.done = [@ EXCEPT !["open"] = @ + 1]]
    [] k = "enterBox" -> [s EXCEPT !.inside = TRUE, !.inter = TRUE, !.ctrl = FALSE,
                                    !.done = [@ EXCEPT !["enterBox"] = @ + 1]]
    [] k = "exitBox"  -> [s EXCEPT !.inside = FALSE, !.inter = TRUE,
                                    !.done = [@ EXCEPT !["exitBox"] = @ + 1]]

\* One timeline rendered at a tick that advances time by dt.
RenderTween(t, dt, s) ==
  LET d  == Duration(t.kind)
      e  == Min(d, t.elapsed + dt)
      s1 == IF t.elapsed = 0 THEN onStart(t.kind, s) ELSE s
      s2 == onUpdate(t.kind, e, s1)
      sw == s2.cam # s1.cam
      t2 == [t EXCEPT !.elapsed = e, !.swaps = IF sw THEN @ + 1 ELSE @]
      s3 == [s2 EXCEPT !.swaps = IF t2.swaps > @ THEN t2.swaps ELSE @]
  IN IF e = d THEN onComplete(t.kind, s3)
     ELSE [s3 EXCEPT !.out = Append(@, t2)]

\* The GSAP ticker renders the timelines in creation order.
RECURSIVE RenderAll(_, _, _)
RenderAll(tw, dt, s) ==
  IF tw = <<>> THEN s
  ELSE RenderAll(Tail(tw), dt, RenderTween(Head(tw), dt, s))

\* One GSAP tick, dt time units after the previous one.
Tick ==
  /\ tweens # <<>>
  /\ \E dt \in 1..MaxDt :
       LET s0 == [open |-> isBoxOpen, inside |-> isInsideBox, inter |-> interactionEnabled,
                  ctrl |-> controlsEnabled, cam |-> activeCamera, done |-> completed,
                  swaps |-> maxSwaps, out |-> <<>>]
           s  == RenderAll(tweens, dt, s0)
       IN /\ isBoxOpen' = s.open
          /\ isInsideBox' = s.inside
          /\ interactionEnabled' = s.inter
          /\ controlsEnabled' = s.ctrl
          /\ activeCamera' = s.cam
          /\ completed' = s.done
          /\ maxSwaps' = s.swaps
          /\ tweens' = s.out
          /\ lookEuler' = IF s.done["enterBox"] > completed["enterBox"]
                          THEN setupInsideBoxControls ELSE lookEuler
  /\ UNCHANGED <<boxModel, started, dispatched, threw>>
  /\ UNCHANGED <<envVars, devVars, qualVars, cullVars, obsVars, renderVars, camVars, frameVars, poVars, loadVars>>
  /\ UNCHANGED <<orbit, looks, lastSrc, needsPermission, orientationListening>>

\* ==================================================== ResponsiveHandler
detectMobileDevice(u, w) == u # "desktop" /\ w = "small"
detectTabletDevice(u, w) == u = "tablet" \/ w = "mid"

Levels == <<"low", "medium", "high">>
LevelIndex(l) == CHOOSE i \in 1..Len(Levels) : Levels[i] = l

\* setupAdaptiveQuality: initial level chosen from the device.
InitialQuality(m, t) == IF m THEN "low" ELSE IF t THEN "medium" ELSE "high"

\* Classes of fpsMonitor.avgFps = num / 10^n against the two thresholds.
FpsBelow30(num, n) == num < 30 * Pow10(n)
FpsAbove55(num, n) == num > 55 * Pow10(n)
FpsClass(num, n) ==
  IF FpsBelow30(num, n) THEN "low" ELSE IF FpsAbove55(num, n) THEN "high" ELSE "ok"

\* Variant that downgrades on the second low window already.
adjustQualityEager(q, num, n, m, t) ==
  IF FpsBelow30(num, n) THEN
    IF q.low + 1 >= 2 THEN
      [level |-> IF q.level = "high" THEN "medium"
                 ELSE IF q.level = "medium" THEN "low" ELSE q.level,
       low |-> 0]
    ELSE [q EXCEPT !.low = @ + 1]
  ELSE IF FpsAbove55(num, n) /\ q.level # "high" THEN
    [level |-> IF q.level = "low" /\ ~m THEN "medium"
               ELSE IF q.level = "medium" /\ ~m /\ ~t THEN "high" ELSE q.level,
     low |-> 0]
  ELSE [q EXCEPT !.low = 0]

\* Variant that upgrades without looking at the device.
adjustQualityNoCeiling(q, num, n, m, t) ==
  IF FpsBelow30(num, n) THEN
    IF q.low + 1 >= 3 THEN
      [level |-> IF q.level = "high" THEN "medium"
                 ELSE IF q.level = "medium" THEN "low" ELSE q.level,
       low |-> 0]
    ELSE [q EXCEPT !.low = @ + 1]
  ELSE IF FpsAbove55(num, n) /\ q.level # "high" THEN
    [level |-> IF q.level = "low" THEN "medium" ELSE "high", low |-> 0]
  ELSE [q EXCEPT !.low = 0]

\* Variant whose step to high looks at the mobile flag only.
adjustQualityTabletHigh(q, num, n, m, t) ==
  IF FpsBelow30(num, n) THEN
    IF q.low + 1 >= 3 THEN
      [level |-> IF q.level = "high" THEN "medium"
                 ELSE IF q.level = "medium" THEN "low" ELSE q.level,
       low |-> 0]
    ELSE [q EXCEPT !.low = @ + 1]
  ELSE IF FpsAbove55(num, n) /\ q.level # "high" THEN
    [level |-> IF q.level = "low" /\ ~m THEN "medium"
               ELSE IF q.level = "medium" /\ ~m THEN "high" ELSE q.level,
     low |-> 0]
  ELSE [q EXCEPT !.low = 0]

\* Variant that leaves the counter alone when the frame rate is acceptable.
adjustQualityNoReset(q, num, n, m, t) ==
  IF FpsBelow30(num, n) THEN
    IF q.low + 1 >= 3 THEN
      [level |-> IF q.level = "high" THEN "medium"
                 ELSE IF q.level = "medium" THEN "low" ELSE q.level,
       low |-> 0]
    ELSE [q EXCEPT !.low = @ + 1]
  ELSE IF FpsAbove55(num, n) /\ q.level # "high" THEN
    [level |-> IF q.level = "low" /\ ~m THEN "medium"
               ELSE IF q.level = "medium" /\ ~m /\ ~t THEN "high" ELSE q.level,
     low |-> 0]
  ELSE q

\* adjustQualityBasedOnPerformance on q = [level, low], for avgFps = num / 10^n.
adjustQualityBasedOnPerformance(q, num, n, m, t) ==
  IF FpsBelow30(num, n) THEN
    IF q.low + 1 >= 3 THEN
      [level |-> IF q.level = "high" THEN "medium"
                 ELSE IF q.level = "medium" THEN "low" ELSE q.level,
       low |-> 0]
    ELSE [q EXCEPT !.low = @ + 1]
  ELSE IF FpsAbove55(num, n) /\ q.level # "high" THEN
    [level |-> IF q.level = "low" /\ ~m THEN "medium"
               ELSE IF q.level = "medium" /\ ~m /\ ~t THEN "high" ELSE q.level,
     low |-> 0]
  ELSE [q EXCEPT !.low = 0]

\* applyQualitySettings: pixel ratio cap (tenths) and shadow map type per level.
applyQualitySettings(level) ==
  CASE level = "low"    -> [cap |-> 10, shadow |-> "basic"]
    [] level = "medium" -> [cap |-> 15, shadow |-> "pcf"]
    [] OTHER            -> [cap |-> 20, shadow |-> "soft"]

\* PerformanceOptimizer.setRenderQuality for the levels 'auto' resolves to.
setRenderQuality(quality) ==
  CASE quality = "low"    -> [cap |-> 10, shadow |-> "basic"]
    [] quality = "medium" -> [cap |-> 15, shadow |-> "pcf"]
    [] quality = "ultra"  -> [cap |-> 25, shadow |-> "soft"]
    [] OTHER              -> [cap |-> 20, shadow |-> "soft"]

\* Classes of navigator.hardwareConcurrency: <= 4, 5..7 or unknown, >= 8.
Cores == {"few", "some", "many"}

\* applyOptimizationLevel('auto'): the level chosen from user agent and cores.
AutoLevel(u, c) ==
  IF u # "desktop" \/ c = "few" THEN "low"
  ELSE IF c = "many" THEN "high" ELSE "medium"

\* Pixel ratio cap set by the resize listener of BoxExperience, in tenths.
ResizePixelRatioCap == 20

\* Frame rates measured over one check interval (frames * 1000 / elapsed).
CurrentFps == {1, 60, 100}

\* monitorPerformance on the frame that closes a check interval.
Evaluate ==
  /\ evals < MaxEvals
  /\ \E cur \in CurrentFps :
       LET num == 7 * avgNum + 3 * cur * Pow10(evals)
           n   == evals + 1
           q   == adjustQualityBasedOnPerformance(
                    [level |-> qualityLevel, low |-> lowFpsCount], num, n, isMobile, isTablet)
           r   == IF q.level # qualityLevel THEN applyQualitySettings(q.level)
                  ELSE [cap |-> pixelRatioCap, shadow |-> shadowType]
       IN /\ avgNum' = num
          /\ evals' = n
          /\ qualityLevel' = q.level
          /\ lowFpsCount' = q.low
          /\ hist' = Append(hist, [fps |-> FpsClass(num, n), level |-> q.level, low |-> q.low])
          /\ pixelRatioCap' = r.cap
          /\ shadowType' = r.shadow

monitorPerformance ==
  /\ Evaluate
  /\ UNCHANGED <<boxVars, envVars, devVars, cullVars, obsVars, camVars, frameVars, lookVars, poVars, loadVars>>

\* Field of view at construction: external 35, internal 75; raised below this.
ExternalFov == 35
InternalFov == 75
MobileMinFov == 45

\* updateCameraForScreenSize, per camera: a mobile device gets at least 45.
updateFov(fov, m) == IF m /\ fov < MobileMinFov THEN MobileMinFov ELSE fov

\* A window 'resize' event: the listener of BoxExperience sets both aspects and
\* the pixel ratio, then onWindowResize detects the device again from the new
\* width and runs updateCameraForScreenSize.
onWindowResize ==
  /\ \E w \in Widths :
       /\ width' = w
       /\ isMobile' = detectMobileDevice(ua, w)
       /\ isTablet' = detectTabletDevice(ua, w)
       /\ externalAspect' = w
       /\ internalAspect' = w
       /\ externalFov' = updateFov(externalFov, detectMobileDevice(ua, w))
       /\ internalFov' = updateFov(internalFov, detectMobileDevice(ua, w))
  /\ pixelRatioCap' = ResizePixelRatioCap
  /\ UNCHANGED <<testMode, ua, touchControls, keyboardControls, shadowType, renderCamera>>
  /\ UNCHANGED <<boxVars, qualVars, cullVars, obsVars, frameVars, lookVars, poVars, loadVars>>

\* ================================================= PerformanceOptimizer
\* Meshes found by setupCulling's scene.traverse.
CullableObjects == {"ground", "boxPlaceholder", "infoPanel"}

\* userData.originalVisible stored by setupCulling.
originalVisible(o) == o # "infoPanel"

\* Geometries stored in userData by setupEnvironmentLOD (only the ground has any:
\* boxModel is still unbound when setupLODSystem runs).
LodGeometries(o) == IF o = "ground" THEN {"original", "medium", "low"} ELSE {}

\* scene.remove(boxPlaceholder) detaches the placeholder once the model is bound.
HasParent(o) == o # "boxPlaceholder" \/ ~boxModel

Distances == {2, 5, 7, 10, 11}

\* Camera distances of one frame; the objects that carry no LOD geometries sit
\* together at the scene origin and get one sample between them.
CameraDistances ==
  {ds \in [CullableObjects -> Distances] :
     \A o1, o2 \in CullableObjects :
       LodGeometries(o1) = {} /\ LodGeometries(o2) = {} => ds[o1] = ds[o2]}

\* Variant whose distance tests include the thresholds themselves.
cullObjectInclusive(o, c, inFrustum, distance) ==
  LET v == inFrustum /\ originalVisible(o)
      g == IF v /\ "original" \in LodGeometries(o)
           THEN (IF distance >= 10 /\ "low" \in LodGeometries(o) THEN "low"
                 ELSE IF distance >= 5 /\ "medium" \in LodGeometries(o) THEN "medium"
                 ELSE "original")
           ELSE c.geometry
  IN [visible |-> v, geometry |-> g]

\* Variant that shows whatever the frustum test lets through.
cullObjectFrustumOnly(o, c, inFrustum, distance) ==
  LET v == inFrustum
      g == IF v /\ "original" \in LodGeometries(o)
           THEN (IF distance > 10 /\ "low" \in LodGeometries(o) THEN "low"
                 ELSE IF distance > 5 /\ "medium" \in LodGeometries(o) THEN "medium"
                 ELSE "original")
           ELSE c.geometry
  IN [visible |-> v, geometry |-> g]

\* Body of updateCulling's forEach for one object: c = [visible, geometry].
cullObject(o, c, inFrustum, distance) ==
  LET v == inFrustum /\ originalVisible(o)
      g == IF v /\ "original" \in LodGeometries(o)
           THEN (IF distance > 10 /\ "low" \in LodGeometries(o) THEN "low"
                 ELSE IF distance > 5 /\ "medium" \in LodGeometries(o) THEN "medium"
                 ELSE "original")
           ELSE c.geometry
  IN [visible |-> v, geometry |-> g]

\* PerformanceOptimizer.update -> updateCulling, once per frame.
CullPass(fr, ds) ==
       LET r == [o \in CullableObjects |->
                   IF HasParent(o)
                   THEN cullObject(o, [visible |-> objVisible[o], geometry |-> objGeometry[o]],
                                   fr[o], ds[o])
                   ELSE [visible |-> objVisible[o], geometry |-> objGeometry[o]]]
       IN /\ objVisible' = [o \in CullableObjects |-> r[o].visible]
          /\ objGeometry' = [o \in CullableObjects |-> r[o].geometry]
          /\ objPrevGeometry' = objGeometry
          /\ objDistance' = [o \in CullableObjects |->
                               IF HasParent(o) THEN ds[o] ELSE objDistance[o]]
          /\ objInFrustum' = [o \in CullableObjects |->
                               IF HasParent(o) THEN fr[o] ELSE objInFrustum[o]]

updateCulling ==
  /\ \E fr \in [CullableObjects -> BOOLEAN], ds \in CameraDistances : CullPass(fr, ds)
  /\ UNCHANGED <<boxVars, envVars, devVars, qualVars, auxVars>>

\* ------------------------------------------ performance monitoring
\* performanceMonitor.fps at construction.
InitialFps == 60

\* Frame durations in milliseconds, and the one of a steady 50 fps display.
FrameDurations == {10, 20, 40}
SteadyFrame == 20

\* const currentFps = 1000 / elapsed
currentFpsOf(elapsed) == 1000 \div elapsed

\* Variant that weighs the new sample like ResponsiveHandler does (0.7 / 0.3).
smoothFpsHeavy(num, n, cur) == 7 * num + 3 * cur * Pow10(n)

\* fps * 0.9 + currentFps * 0.1 on fps = num / 10^n; the result is over 10^(n+1).
smoothFps(num, n, cur) == 9 * num + cur * Pow10(n)

\* Sum of the history entries, over 10^Len(h).
RECURSIVE HistorySum(_, _)
HistorySum(h, i) ==
  IF i > Len(h) THEN 0 ELSE h[i] * Pow10(Len(h) - i) + HistorySum(h, i + 1)

\* Class of avgFps = sum(fpsHistory) / max(1, length) against 30 and 55.
avgFpsClass(h) ==
  LET n == Max(1, Len(h))
  IN IF HistorySum(h, 1) < 30 * n * Pow10(Len(h)) THEN "low"
     ELSE IF HistorySum(h, 1) > 55 * n * Pow10(Len(h)) THEN "high" ELSE "ok"

\* applyOptimizationLevel(level) on o = [level, applied]; auto is the level the
\* device tests pick when level is 'auto'.
applyOptimizationLevel(level, auto) ==
  [level |-> level, applied |-> IF level = "auto" THEN auto ELSE level]

\* autoOptimize on o = [level, applied] for the history h.
autoOptimize(o, h) ==
  IF o.level # "auto" THEN o
  ELSE LET newLevel ==
             IF avgFpsClass(h) = "low" THEN
               (IF o.level = "ultra" THEN "high"
                ELSE IF o.level = "high" THEN "medium"
                ELSE IF o.level = "medium" THEN "low" ELSE "null")
             ELSE IF avgFpsClass(h) = "high" THEN
               (IF o.level = "low" THEN "medium"
                ELSE IF o.level = "medium" THEN "high"
                ELSE IF o.level = "high" THEN "ultra" ELSE "null")
             ELSE "null"
       IN IF newLevel # "null" /\ newLevel # o.level
          THEN applyOptimizationLevel(newLevel, o.applied) ELSE o

\* PerformanceOptimizer.monitorPerformance on a frame that comes elapsed ms
\* after the previous call; due: the optimization interval has passed. (The
\* call made by the constructor has elapsed = 0 and samples nothing.)
MonitorPO(elapsed, due) ==
  LET cur == currentFpsOf(elapsed)
      num == smoothFps(poFps, Len(fpsHistory), cur)
      h   == Append(fpsHistory, num)
      o   == [level |-> currentOptimizationLevel, applied |-> appliedLevel]
      r   == IF due THEN autoOptimize(o, h) ELSE o
      q   == IF r.applied # appliedLevel THEN setRenderQuality(r.applied)
             ELSE [cap |-> pixelRatioCap, shadow |-> shadowType]
  IN /\ poFps' = num
     /\ fpsHistory' = h
     /\ instants' = Append(instants, cur)
     /\ currentOptimizationLevel' = r.level
     /\ appliedLevel' = r.applied
     /\ pixelRatioCap' = q.cap
     /\ shadowType' = q.shadow
     /\ lastAuto' = IF due THEN [runs |-> lastAuto.runs + 1, avg |-> avgFpsClass(h),
                                 before |-> appliedLevel, after |-> r.applied]
                    ELSE lastAuto

\* The monitoring loop of PerformanceOptimizer on its own.
monitorPerformancePO ==
  /\ Len(fpsHistory) < MaxSamples
  /\ \E elapsed \in FrameDurations, due \in BOOLEAN : MonitorPO(elapsed, due)
  /\ UNCHANGED <<boxVars, envVars, devVars, qualVars, cullVars, obsVars, camVars, frameVars,
                 lookVars, loadVars>>

\* ================================================== animation frames
\* Callbacks registered with requestAnimationFrame: the animate bound by the
\* BoxExperience constructor, the animate installed by initializeExperience,
\* and the two monitorPerformance loops.
Callbacks == {"animateOriginal", "animate", "rhMonitor", "poMonitor"}

\* The browser starts a frame: the registered callbacks will run in order.
BeginFrame ==
  /\ pending = <<>>
  /\ scheduled # <<>>
  /\ frames < MaxFrames
  /\ pending' = scheduled
  /\ scheduled' = <<>>
  /\ frameLog' = <<>>
  /\ frames' = frames + 1
  /\ UNCHANGED <<boxVars, envVars, devVars, qualVars, cullVars, obsVars, renderVars, camVars, lookVars, poVars, loadVars>>

\* Bookkeeping of one callback run: it leaves the queue, logs what it did and
\* registers cb for the next frame.
Ran(did, cb) ==
  /\ pending' = Tail(pending)
  /\ frameLog' = frameLog \o did
  /\ scheduled' = Append(scheduled, cb)
  /\ UNCHANGED frames

\* The animate of BoxExperience, bound before initializeExperience replaced it:
\* renders and registers this.animate, which by now is the replacement.
FrameAnimateOriginal ==
  /\ pending # <<>> /\ Head(pending) = "animateOriginal"
  /\ Ran(<<"draw">>, "animate")
  /\ UNCHANGED <<boxVars, envVars, devVars, qualVars, cullVars, obsVars, renderVars, camVars, lookVars, poVars, loadVars>>

\* The animate installed by initializeExperience: component updates (among
\* them updateCulling), then the original animate. Nothing moves the camera
\* between frames here, so every pass sees what the first one saw.
FrameAnimate ==
  /\ pending # <<>> /\ Head(pending) = "animate"
  /\ \E fr \in [CullableObjects -> BOOLEAN], ds \in CameraDistances :
       /\ objDistance["ground"] # 0 => (fr = objInFrustum /\ ds = objDistance)
       /\ CullPass(fr, ds)
  /\ Ran(<<"cull", "draw">>, "animate")
  /\ UNCHANGED <<boxVars, envVars, devVars, qualVars, obsVars, renderVars, camVars, lookVars, poVars, loadVars>>

\* ResponsiveHandler.monitorPerformance as a frame callback: counts the frame
\* and, when the check interval has elapsed, evaluates.
FrameMonitorRH ==
  /\ pending # <<>> /\ Head(pending) = "rhMonitor"
  /\ \E due \in BOOLEAN :
       IF due /\ evals < MaxEvals THEN Evaluate ELSE UNCHANGED <<qualVars, renderVars>>
  /\ Ran(<<"sample">>, "rhMonitor")
  /\ UNCHANGED <<boxVars, envVars, devVars, cullVars, obsVars, camVars, lookVars, poVars, loadVars>>

\* PerformanceOptimizer.monitorPerformance as a frame callback.
FrameMonitorPO ==
  /\ pending # <<>> /\ Head(pending) = "poMonitor"
  /\ MonitorPO(SteadyFrame, FALSE)
  /\ Ran(<<"monitor">>, "poMonitor")
  /\ UNCHANGED <<boxVars, envVars, devVars, qualVars, cullVars, obsVars, camVars, lookVars, loadVars>>

\* =============================================== look and orbit input
\* Angles are counted in units of 0.01 rad. lookEuler holds numerators over
\* 20^k, k being the number of interpolation steps made so far, so that the
\* 0.05 interpolation of handleDeviceOrientation stays exact. Before the first
\* enterBox completes lookEuler does not exist yet; no handler reads it then.
RECURSIVE Pow20(_)
Pow20(n) == IF n = 0 THEN 1 ELSE 20 * Pow20(n - 1)

Pi == 314

\* const maxVerticalAngle = Math.PI / 3
maxVerticalAngle == 105

\* THREE.MathUtils.clamp, and Math.max(lo, Math.min(hi, v)).
clamp(v, lo, hi) == IF v < lo THEN lo ELSE IF v > hi THEN hi ELSE v

\* lookSpeed * 10 = 0.02 rad for a pointer at the edge of the window.
MouseLookStep == 2

\* 0.05 rad per press of a look key.
KeyLookStep == 5

\* A touch delta in pixels times the sensitivity 0.002, in angle units.
touchAngle(px) == px \div 5

\* An orientation angle in degrees times degToRad * 0.1, in angle units.
orientationTarget(deg) ==
  IF deg >= 0 THEN (deg * Pi) \div 1800 ELSE -(((-deg) * Pi) \div 1800)

\* lookEuler.setFromQuaternion(internalCamera.quaternion), order 'YXZ': the
\* pitch comes back as it is (it lies within a quarter turn), the yaw comes
\* back reduced to (-pi, pi].
setFromQuaternion(l) ==
  LET turn == 2 * Pi * Pow20(l.k)
      r    == l.y % turn
  IN [l EXCEPT !.y = IF 2 * r > turn THEN r - turn ELSE r]

\* Body of the mousemove listener for lookVector = (vx, vy).
mousemove(l, vx, vy) ==
  LET e == setFromQuaternion(l)
      P == Pow20(l.k)
  IN [e EXCEPT !.x = clamp(e.x - vy * MouseLookStep * P,
                           -maxVerticalAngle * P, maxVerticalAngle * P),
               !.y = e.y - vx * MouseLookStep * P]

\* Variant of the touch look that leaves the pitch unlimited.
handleInsideBoxTouchMoveFree(l, deltaX, deltaY) ==
  LET P == Pow20(l.k)
  IN [l EXCEPT !.y = @ - touchAngle(deltaX) * P,
               !.x = @ - touchAngle(deltaY) * P]

\* handleInsideBoxTouchMove(deltaX, deltaY), deltas in pixels.
handleInsideBoxTouchMove(l, deltaX, deltaY) ==
  LET P == Pow20(l.k)
  IN [l EXCEPT !.y = @ - touchAngle(deltaX) * P,
               !.x = clamp(@ - touchAngle(deltaY) * P,
                           -maxVerticalAngle * P, maxVerticalAngle * P)]

\* handleDeviceOrientation past its guards: lerp(current, target, 0.05) on
\* both angles, i.e. (19 * current + target) / 20.
handleDeviceOrientation(l, beta, gamma) ==
  LET P       == Pow20(l.k)
      targetX == clamp(orientationTarget(beta), -maxVerticalAngle, maxVerticalAngle)
      targetY == orientationTarget(gamma)
  IN [x |-> 19 * l.x + targetX * P, y |-> 19 * l.y + targetY * P, k |-> l.k + 1]

LookKeys == {"KeyW", "KeyS", "KeyA", "KeyD"}

\* The look cases of ResponsiveHandler's keydown listener (arrows alike).
lookKey(l, code) ==
  LET P == Pow20(l.k)
  IN CASE code = "KeyW" -> [l EXCEPT !.x = Max(-maxVerticalAngle * P, @ - KeyLookStep * P)]
       [] code = "KeyS" -> [l EXCEPT !.x = Min(maxVerticalAngle * P, @ + KeyLookStep * P)]
       [] code = "KeyA" -> [l EXCEPT !.y = @ + KeyLookStep * P]
       [] code = "KeyD" -> [l EXCEPT !.y = @ - KeyLookStep * P]

\* Variant that registers the orientation listener without asking.
setupDeviceOrientationControlsEager(m, t, needs) == m \/ t

\* setupDeviceOrientationControls: whether handleDeviceOrientation is registered
\* when the constructor returns. Where requestPermission exists the listener is
\* registered only by the click handler of the permission button; the button is
\* created hidden and is shown only by a listener for the document event
\* 'enterBox', which nothing dispatches, so that click cannot happen.
setupDeviceOrientationControls(m, t, needs) == (m \/ t) /\ ~needs

\* Inputs of the continuous handlers.
LookVector   == {-1, 1}
TouchDeltas  == {-600, 600}
Betas        == {-180, 180}
Gammas       == {90}

\* Bookkeeping of one continuous input event from device src.
Delivered(src) ==
  /\ looks < MaxLooks
  /\ looks' = looks + 1
  /\ lastSrc' = src
  /\ UNCHANGED <<needsPermission, orientationListening>>
  /\ UNCHANGED <<boxVars, envVars, devVars, qualVars, cullVars, obsVars, renderVars, camVars,
                 frameVars, poVars, loadVars>>

\* A pointer move over the canvas, with the button held (drag) or not: the
\* mousemove listener of BoxExperience, and OrbitControls, which turns the
\* external camera on a drag while controls.enabled.
MouseMove ==
  /\ \E vx \in LookVector, vy \in LookVector, drag \in BOOLEAN :
       /\ lookEuler' = IF isInsideBox THEN mousemove(lookEuler, vx, vy) ELSE lookEuler
       /\ orbit' = IF drag /\ controlsEnabled THEN orbit - vx * MouseLookStep ELSE orbit
  /\ Delivered("mouse")

\* ResponsiveHandler.onTouchMove for one finger that is down.
onTouchMove ==
  /\ touchControls
  /\ \E deltaX \in TouchDeltas, deltaY \in TouchDeltas :
       IF isInsideBox
       THEN /\ lookEuler' = handleInsideBoxTouchMove(lookEuler, deltaX, deltaY)
            /\ UNCHANGED orbit
       ELSE IF controlsEnabled
       THEN /\ orbit' = orbit - touchAngle(deltaX)
            /\ UNCHANGED lookEuler
       ELSE UNCHANGED <<lookEuler, orbit>>
  /\ Delivered("touch")

\* The browser of a device with sensors fires 'deviceorientation' with valid angles.
DeviceOrientation ==
  /\ ua # "desktop"
  /\ \E beta \in Betas, gamma \in Gammas :
       lookEuler' = IF orientationListening /\ isInsideBox
                    THEN handleDeviceOrientation(lookEuler, beta, gamma)
                    ELSE lookEuler
  /\ UNCHANGED orbit
  /\ Delivered("orientation")

\* A look key goes down.
KeyLook ==
  /\ keyboardControls
  /\ \E code \in LookKeys :
       lookEuler' = IF isInsideBox THEN lookKey(lookEuler, code) ELSE lookEuler
  /\ UNCHANGED orbit
  /\ Delivered("key")

\* ---------------------------------------------------------- page load
\* const assetsToLoad = 10
assetsToLoad == 10

\* Loads started by preloadAssets: eight textures, the environment map, fonts.
Preloads == 10

\* onAssetLoaded: the success callback of one preload.
onAssetLoaded ==
  /\ assetsLoaded < Preloads
  /\ assetsLoaded' = assetsLoaded + 1
  /\ initialized' = IF assetsLoaded + 1 >= assetsToLoad THEN initialized + 1 ELSE initialized
  /\ UNCHANGED timeoutFired
  /\ UNCHANGED <<boxVars, envVars, devVars, qualVars, cullVars, obsVars, renderVars, camVars,
                 frameVars, lookVars, poVars>>

\* The callback of the 10 s fallback timer.
LoadingTimeout ==
  /\ ~timeoutFired
  /\ timeoutFired' = TRUE
  /\ initialized' = IF assetsLoaded < assetsToLoad THEN initialized + 1 ELSE initialized
  /\ UNCHANGED assetsLoaded
  /\ UNCHANGED <<boxVars, envVars, devVars, qualVars, cullVars, obsVars, renderVars, camVars,
                 frameVars, lookVars, poVars>>

\* ====================================================== specifications
\* The experience as initializeExperience constructs it.
Constructed ==
  /\ boxModel = FALSE
  /\ isBoxOpen = FALSE
  /\ isInsideBox = FALSE
  /\ interactionEnabled = TRUE
  /\ controlsEnabled = TRUE
  /\ activeCamera = "external"
  /\ tweens = <<>>
  /\ maxSwaps = 0
  /\ started = [o \in Ops |-> 0]
  /\ completed = [o \in Ops |-> 0]
  /\ dispatched = [e \in Events |-> 0]
  /\ threw = FALSE
  /\ testMode \in BOOLEAN
  /\ ua \in UAs
  /\ width \in Widths
  /\ isMobile = detectMobileDevice(ua, width)
  /\ isTablet = detectTabletDevice(ua, width)
  /\ touchControls = (isMobile \/ isTablet)
  /\ keyboardControls = (~isMobile /\ ~isTablet)
  /\ qualityLevel = InitialQuality(isMobile, isTablet)
  /\ avgNum = 60
  /\ evals = 0
  /\ lowFpsCount = 0
  /\ hist = <<[fps |-> "init", level |-> qualityLevel, low |-> 0]>>
  /\ objVisible = [o \in CullableObjects |-> originalVisible(o)]
  /\ objGeometry = [o \in CullableObjects |-> "original"]
  /\ objPrevGeometry = [o \in CullableObjects |-> "original"]
  /\ objDistance = [o \in CullableObjects |-> 0]
  /\ objInFrustum = [o \in CullableObjects |-> TRUE]
  /\ lastCall = [src |-> "none", hit |-> FALSE, state |-> "Closed",
                 enabled |-> TRUE, bound |-> FALSE, op |-> "none"]
  /\ \E c \in Cores :
       /\ pixelRatioCap = setRenderQuality(AutoLevel(ua, c)).cap
       /\ shadowType = setRenderQuality(AutoLevel(ua, c)).shadow
       /\ currentOptimizationLevel = applyOptimizationLevel("auto", AutoLevel(ua, c)).level
       /\ appliedLevel = applyOptimizationLevel("auto", AutoLevel(ua, c)).applied
  /\ poFps = InitialFps
  /\ fpsHistory = <<>>
  /\ instants = <<>>
  /\ lastAuto = [runs |-> 0, avg |-> "none", before |-> appliedLevel, after |-> appliedLevel]
  /\ externalFov = updateFov(ExternalFov, isMobile)
  /\ internalFov = updateFov(InternalFov, isMobile)
  /\ externalAspect = width
  /\ internalAspect = width
  /\ renderCamera = activeCamera
  /\ scheduled = <<"animateOriginal", "rhMonitor", "poMonitor", "animate">>
  /\ pending = <<>>
  /\ frameLog = <<>>
  /\ frames = 0
  /\ lookEuler = setupInsideBoxControls
  /\ orbit = 0
  /\ looks = 0
  /\ lastSrc = "none"

\* The orientation listener as the constructor of ResponsiveHandler leaves it.
OrientationSetup ==
  orientationListening = setupDeviceOrientationControls(isMobile, isTablet, needsPermission)

\* Every asset has loaded before the timeout: one call of initializeExperience.
LoadedInTime ==
  /\ assetsLoaded = assetsToLoad
  /\ timeoutFired = FALSE
  /\ initialized = 1

\* The state after construction on a platform without requestPermission.
Init ==
  /\ Constructed
  /\ needsPermission = FALSE
  /\ OrientationSetup
  /\ LoadedInTime

\* The box experience: model binding, input handlers and the GSAP ticker.
Next ==
  \/ ModelLoaded
  \/ Click
  \/ KeySpace
  \/ handleTap
  \/ KeyEscape
  \/ HomeButton
  \/ TestButton
  \/ TouchActionButton
  \/ Tick

Spec == Init /\ [][Next]_vars

\* The scenario of one viewer acting only when nothing is in flight.
ScenarioActivate ==
  /\ boxModel
  /\ tweens = <<>>
  /\ KeySpace

NextScenario ==
  \/ ModelLoaded
  \/ ScenarioActivate
  \/ Tick

SpecScenario == Init /\ [][NextScenario]_vars

\* The adaptive quality controller of ResponsiveHandler.
NextQuality ==
  \/ monitorPerformance
  \/ onWindowResize

SpecQuality == Init /\ [][NextQuality]_vars

\* The culler of PerformanceOptimizer.
NextCull ==
  \/ ModelLoaded
  \/ updateCulling

InitCull == Init /\ ua = "desktop" /\ width = "large" /\ ~testMode

SpecCull == InitCull /\ [][NextCull]_vars

\* The animation frames of a desktop page nobody touches.
NextFrame ==
  \/ BeginFrame
  \/ FrameAnimateOriginal
  \/ FrameAnimate
  \/ FrameMonitorRH
  \/ FrameMonitorPO

SpecFrame == InitCull /\ [][NextFrame]_vars

\* The activate inputs alone, each one observed.
NextDispatch ==
  \/ ModelLoaded
  \/ ObservedClick
  \/ ObservedTap
  \/ ObservedKey
  \/ Tick

InitDispatch == Init /\ ~testMode

SpecDispatch == InitDispatch /\ [][NextDispatch]_vars

\* One viewer who looks and orbits at any moment and activates when idle.
NextLook ==
  \/ ModelLoaded
  \/ ScenarioActivate
  \/ Tick
  \/ MouseMove
  \/ onTouchMove
  \/ DeviceOrientation
  \/ KeyLook

\* Touch devices come with and without DeviceOrientationEvent.requestPermission.
InitLook ==
  /\ Constructed
  /\ ~testMode
  /\ needsPermission \in (IF isMobile \/ isTablet THEN BOOLEAN ELSE {FALSE})
  /\ OrientationSetup
  /\ LoadedInTime

SpecLook == InitLook /\ [][NextLook]_vars

\* The monitoring loop of PerformanceOptimizer.
NextMonitor ==
  \/ monitorPerformancePO

SpecMonitor == Init /\ [][NextMonitor]_vars

\* The page load: preload callbacks and the fallback timer, in any order. The
\* experience variables hold the values construction gives them.
NextLoad ==
  \/ onAssetLoaded
  \/ LoadingTimeout

InitLoad ==
  /\ Constructed
  /\ needsPermission = FALSE
  /\ OrientationSetup
  /\ assetsLoaded = 0
  /\ timeoutFired = FALSE
  /\ initialized = 0

SpecLoad == InitLoad /\ [][NextLoad]_vars

\* ============================================================== claims

\* C1: an operation called from a state other than its source state (open:
\* Closed, enterBox: Open, exitBox: Inside) is a no-op; since a call either
\* returns at its guard or creates a timeline, this says that a timeline is
\* created only from the operation's source state.
C1_WrongStateIsNoOp ==
  [][ /\ started'["open"] > started["open"] => ExperienceState = "Closed"
      /\ started'["enterBox"] > started["enterBox"] => ExperienceState = "Open"
      /\ started'["exitBox"] > started["exitBox"] => ExperienceState = "Inside" ]_vars

\* C2: two calls of open() with no tick between them create one opening
\* timeline, not two.
C2_DoubleOpenRunsOnce ==
  Cardinality({i \in DOMAIN tweens :
                 tweens[i].kind = "open" /\ tweens[i].elapsed = 0}) <= 1

\* C3: at every instant at most one transition timeline is in flight.
C3_SingleTransitionInFlight == Len(tweens) <= 1

\* C4: the experience state changes only along Closed->Open, Open->Inside and
\* Inside->Open.
C4_EdgesOnly ==
  [][ ExperienceState' # ExperienceState =>
        <<ExperienceState, ExperienceState'>> \in
          {<<"Closed", "Open">>, <<"Open", "Inside">>, <<"Inside", "Open">>} ]_vars

\* C5: a transition changes the active camera at most once, and an enterBox or
\* exitBox timeline has made its change exactly when its progress has reached
\* the 0.5 mark (progress >= 0.5).
C5_CameraSwapOnceAtHalf ==
  /\ maxSwaps <= 1
  /\ \A i \in DOMAIN tweens :
       tweens[i].kind # "open" =>
         (tweens[i].swaps = 1 <=> 2 * tweens[i].elapsed >= Duration(tweens[i].kind))

\* C6: every completed open / enterBox / exitBox has dispatched exactly one
\* boxOpened / enterBox / exitBox event.
C6_EventPerCompletion ==
  /\ dispatched["boxOpened"] = completed["open"]
  /\ dispatched["enterBox"] = completed["enterBox"]
  /\ dispatched["exitBox"] = completed["exitBox"]

LowAt(i) == hist[i].fps = "low"

\* Three low evaluations in a row ending at history entry i, the counter being
\* 0 before the first of them.
ThreeLowsFromZero(i) ==
  /\ i >= 4
  /\ hist[i - 3].low = 0
  /\ LowAt(i - 2) /\ LowAt(i - 1) /\ LowAt(i)

\* C8 as stated: three low evaluations in a row from the top of the scale,
\* starting with the counter at 0, are a downgrade from ultra to high.
C8_UltraToHigh ==
  \A i \in DOMAIN hist :
    (ThreeLowsFromZero(i) /\ hist[i - 3].level = Levels[Len(Levels)])
      => (hist[i - 3].level = "ultra" /\ hist[i].level = "high")

\* C8 as amended: the level moves by at most one step per evaluation; a
\* downgrade happens only at the third of three low evaluations in a row; and
\* three low evaluations in a row, starting with the counter at 0 at a level
\* above low, leave the level alone at the first and second and lower it by
\* exactly one step (high to medium, medium to low) at the third.
C8_DowngradeAtThirdLow ==
  \A i \in 2..Len(hist) :
    LET a == LevelIndex(hist[i - 1].level)
        b == LevelIndex(hist[i].level)
    IN /\ b - a <= 1 /\ a - b <= 1
       /\ b < a => /\ i >= 4
                   /\ LowAt(i - 2) /\ LowAt(i - 1) /\ LowAt(i)
                   /\ hist[i - 2].level = hist[i - 3].level
                   /\ hist[i - 1].level = hist[i - 3].level
       /\ (ThreeLowsFromZero(i) /\ hist[i - 3].level # "low")
            => /\ hist[i - 2].level = hist[i - 3].level
               /\ hist[i - 1].level = hist[i - 3].level
               /\ b = LevelIndex(hist[i - 3].level) - 1

\* Three low evaluations from counter 0 have taken the level from high to medium.
C8_Witness ==
  \E i \in DOMAIN hist :
    ThreeLowsFromZero(i) /\ hist[i - 3].level = "high" /\ hist[i].level = "medium"

\* C9 as stated: an evaluation with fps > 55 below the top level raises the
\* level by exactly one step and resets the low-window counter.
C9_AlwaysUpgrades ==
  [][ (evals' = evals + 1 /\ avgNum' > 55 * Pow10(evals') /\ qualityLevel # Levels[Len(Levels)])
        => /\ LevelIndex(qualityLevel') = LevelIndex(qualityLevel) + 1
           /\ lowFpsCount' = 0 ]_vars

\* C9 as amended: an evaluation with fps > 55 below high resets the low-window
\* counter and, in that same evaluation, raises low to medium unless the device
\* is mobile, and medium to high unless the device is mobile or a tablet; where
\* the device forbids it the level stays.
C9_UpgradeWithinCeiling ==
  [][ (evals' = evals + 1 /\ avgNum' > 55 * Pow10(evals') /\ qualityLevel # "high")
        => /\ lowFpsCount' = 0
           /\ qualityLevel = "low" =>
                qualityLevel' = IF isMobile THEN "low" ELSE "medium"
           /\ qualityLevel = "medium" =>
                qualityLevel' = IF isMobile \/ isTablet THEN "medium" ELSE "high" ]_vars

\* One evaluation with a high frame rate has raised low to medium.
C9_Witness ==
  \E i \in 2..Len(hist) :
    hist[i].fps = "high" /\ hist[i - 1].level = "low" /\ hist[i].level = "medium"

\* The variant the claim's thresholds (far 10, near 5) give for a distance.
VariantAt(d) == IF d > 10 THEN "low" ELSE IF d > 5 THEN "medium" ELSE "original"

\* C10 as stated: every visible cullable object carries the variant its camera
\* distance selects.
C10_EveryObjectByDistance ==
  \A o \in CullableObjects :
    (objVisible[o] /\ objDistance[o] > 0) => objGeometry[o] = VariantAt(objDistance[o])

\* C10 as amended: every visible cullable object that has the three stored
\* geometries carries, after each pass, the variant its camera distance of that
\* pass selects (whatever it carried before); an object without stored
\* geometries keeps its own geometry at every distance.
C10_VariantByDistance ==
  \A o \in CullableObjects :
    /\ (LodGeometries(o) = {"original", "medium", "low"} /\ objVisible[o] /\ objDistance[o] > 0)
         => objGeometry[o] = VariantAt(objDistance[o])
    /\ LodGeometries(o) = {} => objGeometry[o] = "original"

\* The ground came back from the low variant to the full one in one pass.
C10_Witness ==
  /\ objVisible["ground"]
  /\ objPrevGeometry["ground"] = "low"
  /\ objDistance["ground"] = 2
  /\ objGeometry["ground"] = "original"

\* The dispatch rule of the claim: operation for (ray hit, state).
RuleOp(hit, st) ==
  IF hit /\ st = "Closed" THEN "open"
  ELSE IF hit /\ st = "Open" THEN "enterBox"
  ELSE IF ~hit /\ st = "Inside" THEN "exitBox"
  ELSE "none"

\* C11 as stated: every activate input, whether click, tap or Space key, that
\* arrives with the model bound and interaction enabled calls the operation the
\* rule gives for (ray hit, state) and no other.
C11_RuleForEverySource ==
  (lastCall.src # "none" /\ lastCall.bound /\ lastCall.enabled)
    => lastCall.op = RuleOp(lastCall.hit, lastCall.state)

\* C11 as amended: with the model bound, a touch tap, and a click arriving while
\* interaction is enabled, call the operation the rule gives for (ray hit,
\* state); a click arriving while interaction is disabled calls nothing; the
\* Space key casts no ray and calls open() in Closed, enterBox() in Open and
\* exitBox() in Inside, wherever the pointer is.
C11_DispatchBySource ==
  lastCall.bound =>
    /\ lastCall.src = "tap" => lastCall.op = RuleOp(lastCall.hit, lastCall.state)
    /\ (lastCall.src = "click" /\ lastCall.enabled)
         => lastCall.op = RuleOp(lastCall.hit, lastCall.state)
    /\ (lastCall.src = "click" /\ ~lastCall.enabled) => lastCall.op = "none"
    /\ lastCall.src = "key" =>
         lastCall.op = (IF lastCall.state = "Closed" THEN "open"
                        ELSE IF lastCall.state = "Open" THEN "enterBox" ELSE "exitBox")

\* A tap beside the box, made inside, has called exitBox().
C11_Witness ==
  /\ lastCall.src = "tap" /\ ~lastCall.hit /\ lastCall.state = "Inside"
  /\ lastCall.op = "exitBox"

\* C12: an activate input (click, tap or Space) that arrives while the model is
\* not bound starts no transition, leaves the state unchanged and raises no
\* error.
C12_UnboundInputIgnored ==
  [][ (~boxModel /\ lastCall' # lastCall)
        => /\ tweens' = tweens
           /\ ExperienceState' = ExperienceState
           /\ threw' = threw ]_vars

\* C13: while the opening timeline runs, interaction and orbit input are both
\* disabled, and once it has completed (state Open, nothing else started) both
\* are enabled again.
C13_OpenDisablesForDuration ==
  /\ \A i \in DOMAIN tweens :
       (tweens[i].kind = "open" /\ tweens[i].elapsed > 0)
         => (~interactionEnabled /\ ~controlsEnabled)
  /\ (completed["open"] = 1 /\ TotalStarted = 1)
       => (ExperienceState = "Open" /\ interactionEnabled /\ controlsEnabled)

\* C14: orbit input is disabled as long as the state is Inside, in particular
\* while an exit timeline runs, and is enabled once the exit has completed and
\* the state is Open again.
C14_OrbitBackOnExitCompletion ==
  /\ ExperienceState = "Inside" => ~controlsEnabled
  /\ \A i \in DOMAIN tweens : tweens[i].kind = "exitBox" => ~controlsEnabled
  /\ (tweens = <<>> /\ completed["exitBox"] >= 1
        /\ completed["exitBox"] = completed["enterBox"])
       => (ExperienceState = "Open" /\ controlsEnabled)

\* C15: an evaluation made while the device is detected as mobile or tablet
\* never raises the quality level to high, whatever the measured frame rate.
C15_NoUpgradePastMedium ==
  [][ (evals' = evals + 1 /\ (isMobile \/ isTablet) /\ qualityLevel # "high")
        => qualityLevel' # "high" ]_vars

\* A tablet at medium has been measured above 55 fps and is still at medium.
C15_Witness ==
  /\ ua = "tablet"
  /\ Len(hist) >= 2
  /\ hist[Len(hist)].fps = "high"
  /\ hist[Len(hist) - 1].level = "medium"
  /\ hist[Len(hist)].level = "medium"

SettingsFor(level) ==
  IF level = "low" THEN <<10, "basic">>
  ELSE IF level = "medium" THEN <<15, "pcf">>
  ELSE <<20, "soft">>

\* C17: the applied render settings are a function of the controller's current
\* quality level: the pixel ratio cap and the shadow algorithm in force are
\* always the ones of that level.
C17_SettingsFollowLevel ==
  <<pixelRatioCap, shadowType>> = SettingsFor(qualityLevel)

\* C18: after every culling pass the visible flag of each cullable object is
\* the conjunction of the frustum test made for it and of its baseline
\* visibility; an object whose baseline is hidden is hidden after every pass,
\* whatever the frustum test says.
C18_VisibleIsFrustumAndBaseline ==
  \A o \in CullableObjects :
    /\ objVisible[o] = (objInFrustum[o] /\ originalVisible(o))
    /\ ~originalVisible(o) => ~objVisible[o]

\* A pass has found the hidden info panel inside the frustum and the ground
\* outside of it: both are invisible.
C18_Witness ==
  /\ objDistance["infoPanel"] > 0
  /\ objInFrustum["infoPanel"] /\ ~objVisible["infoPanel"]
  /\ ~objInFrustum["ground"] /\ ~objVisible["ground"]

\* C19: within every frame the quality sampling runs before the culler pass,
\* which runs before the draw: every culler pass and every draw of a frame come
\* after that frame's sampling, and every draw comes after a culler pass.
C19_SampleCullDraw ==
  \A j \in DOMAIN frameLog :
    /\ frameLog[j] \in {"cull", "draw"} => \E i \in 1..(j - 1) : frameLog[i] = "sample"
    /\ frameLog[j] = "draw" => \E i \in 1..(j - 1) : frameLog[i] = "cull"

\* C20: a resize sets the aspect of both cameras from the new window size and
\* changes neither camera's field of view nor which camera is active.
C20_ResizeOnlyAspect ==
  [][ evals' = evals
        => /\ externalAspect' = width' /\ internalAspect' = width'
           /\ externalFov' = externalFov /\ internalFov' = internalFov
           /\ activeCamera' = activeCamera ]_vars

\* C21: after any sequence of look inputs (pointer move, touch drag, device
\* orientation, look keys) the pitch of lookEuler lies within
\* [-maxVerticalAngle, +maxVerticalAngle].
C21_PitchWithinLimit ==
  /\ lookEuler.x >= -maxVerticalAngle * Pow20(lookEuler.k)
  /\ lookEuler.x <= maxVerticalAngle * Pow20(lookEuler.k)

\* A touch drag longer than the limit has left the pitch on the limit, after
\* an orientation event had moved it.
C21_Witness ==
  /\ isInsideBox
  /\ lastSrc = "touch"
  /\ lookEuler.k >= 1
  /\ lookEuler.x = maxVerticalAngle * Pow20(lookEuler.k)

\* C22: a continuous input changes the orbit of the external camera only
\* while the state is Open with orbit enabled and no transition in flight, and
\* changes lookEuler only while the state is Inside.
C22_ContinuousInputGated ==
  [][ looks' # looks
        => /\ orbit' # orbit
                => (ExperienceState = "Open" /\ controlsEnabled /\ tweens = <<>>)
           /\ lookEuler' # lookEuler => ExperienceState = "Inside" ]_vars

\* C23: on a platform that requires the orientation permission request, no
\* device-orientation event changes lookEuler unless the request has returned
\* 'granted'. The request is never made (the button that makes it is never
\* shown), so on such a platform the orientation listener is never registered
\* and every change of lookEuler by an input comes from pointer, touch or keys.
C23_OrientationNeedsPermission ==
  [][ needsPermission
        => /\ ~orientationListening
           /\ (looks' # looks /\ lookEuler' # lookEuler)
                => lastSrc' \in {"mouse", "touch", "key"} ]_vars

\* On a platform that requires permission, an orientation event has arrived
\* inside the box and has left the pitch a touch drag had set.
C23_Witness ==
  /\ needsPermission
  /\ isInsideBox
  /\ lastSrc = "orientation"
  /\ lookEuler.k = 0
  /\ lookEuler.x = maxVerticalAngle

\* C24: no input handler that calls open / enterBox / exitBox raises an
\* exception, in any reachable state.
C24_NoHandlerThrows == ~threw

\* C25 as stated: the first frame sample seeds the smoothed estimate (after it
\* the estimate equals that sample's currentFps), and every later sample updates
\* it as 0.9 * estimate + 0.1 * currentFps.
C25_SeededByFirstSample ==
  \A i \in DOMAIN fpsHistory :
    fpsHistory[i] = IF i = 1 THEN instants[1] * 10
                    ELSE 9 * fpsHistory[i - 1] + instants[i] * Pow10(i - 1)

\* C25 as amended: the estimate of PerformanceOptimizer starts at 60 and every
\* sampled frame, the first one included, updates it as
\* 0.9 * estimate + 0.1 * currentFps with currentFps = 1000 / elapsed; the
\* estimate is always the last value pushed on the history.
C25_SmoothedFromSixty ==
  /\ Len(instants) = Len(fpsHistory)
  /\ poFps = IF fpsHistory = <<>> THEN InitialFps ELSE fpsHistory[Len(fpsHistory)]
  /\ \A i \in DOMAIN fpsHistory :
       fpsHistory[i] = 9 * (IF i = 1 THEN InitialFps ELSE fpsHistory[i - 1])
                         + instants[i] * Pow10(i - 1)

\* Two frames of 10 ms have been sampled: the estimate is 64, then 67.6.
C25_Witness ==
  /\ instants = <<100, 100>>
  /\ fpsHistory = <<640, 6760>>
  /\ poFps = 6760

\* C26: a run of autoOptimize in auto mode lowers the applied optimization
\* level by one step when the average frame rate is below 30 and raises it by
\* one step when the average is above 55 (where a step in that direction
\* exists), and the optimizer is still in auto mode afterwards.
C26_AutoOptimizeSteps ==
  /\ currentOptimizationLevel = "auto"
  /\ lastAuto.runs > 0 =>
       /\ (lastAuto.avg = "low" /\ lastAuto.before # "low")
            => LevelIndex(lastAuto.after) = LevelIndex(lastAuto.before) - 1
       /\ (lastAuto.avg = "high" /\ lastAuto.before \in {"low", "medium"})
            => LevelIndex(lastAuto.after) = LevelIndex(lastAuto.before) + 1

\* C27: one animation-loop chain is running: within a display frame the
\* animate callback draws the scene at most once, and exactly once by the time
\* all callbacks of the frame have run.
C27_OneAnimatePerFrame ==
  LET draws == Cardinality({j \in DOMAIN frameLog : frameLog[j] = "draw"})
  IN /\ draws <= 1
     /\ (frames > 0 /\ pending = <<>>) => draws = 1

\* C28: initializeExperience is called at most once per page load, whatever
\* the order of the asset callbacks and the fallback timer.
C28_InitializedOnce == initialized <= 1

\* C29: the camera the render pass draws with is always the active camera.
C29_RenderPassFollowsActive == renderCamera = activeCamera

====
